---- MODULE Spec2Model ----
(***************************************************************************)
(* Model of onnxruntime/src/tensor.rs: the element type registry, the      *)
(* reference-counted tensor handle, and the two output extraction paths    *)
(* (numeric borrowed view, owned strings).                                 *)
(***************************************************************************)
EXTENDS Integers, Sequences, FiniteSets, TLC

VARIABLES
    strong,     \* strong count of the Rc<TensorPointerHolder>
    held,       \* Rc references held directly by the caller
    views,      \* live TensorPtr values, and array views taken out of them
    released,   \* number of calls of the runtime's release entry for tensor_ptr
    mem,        \* the runtime's numeric buffer behind the tensor
    input,      \* arguments and runtime answers of the latest extract_data call
    outcome,    \* what the latest extract_data call returned
    op,         \* the operation performed by the latest step
    alive,      \* FALSE once a panic has aborted the process
    conv,       \* latest Rust type -> kind -> native -> kind conversion
    disc        \* latest native kind reported by the runtime, and its decoding

vars == <<strong, held, views, released, mem, input, outcome, op, alive, conv, disc>>

(***************************************************************************)
(* Bounds of the model.                                                    *)
(***************************************************************************)
MaxRefs == 3      \* references to one handle alive at a time
MaxCopies == 1    \* array views a caller holds apart from their TensorPtr value
MaxDim == 2       \* largest dimension size in an enumerated shape
MaxElems == 4     \* largest numeric buffer
MaxCount == 2     \* largest tensor_element_len of a string tensor
MaxLen == 3       \* largest total byte length of a string tensor

(***************************************************************************)
(* 4.1 Element type registry.                                              *)
(***************************************************************************)
\* enum TensorElementDataType: the supported kinds.
TensorElementDataType ==
    {"Float", "Uint8", "Int8", "Uint16", "Int16", "Int32", "Int64", "String",
     "Double", "Uint32", "Uint64"}

\* sys::ONNXTensorElementDataType: every kind the runtime defines.
ONNXTensorElementDataType ==
    {"ONNX_TENSOR_ELEMENT_DATA_TYPE_UNDEFINED",
     "ONNX_TENSOR_ELEMENT_DATA_TYPE_FLOAT",
     "ONNX_TENSOR_ELEMENT_DATA_TYPE_UINT8",
     "ONNX_TENSOR_ELEMENT_DATA_TYPE_INT8",
     "ONNX_TENSOR_ELEMENT_DATA_TYPE_UINT16",
     "ONNX_TENSOR_ELEMENT_DATA_TYPE_INT16",
     "ONNX_TENSOR_ELEMENT_DATA_TYPE_INT32",
     "ONNX_TENSOR_ELEMENT_DATA_TYPE_INT64",
     "ONNX_TENSOR_ELEMENT_DATA_TYPE_STRING",
     "ONNX_TENSOR_ELEMENT_DATA_TYPE_BOOL",
     "ONNX_TENSOR_ELEMENT_DATA_TYPE_FLOAT16",
     "ONNX_TENSOR_ELEMENT_DATA_TYPE_DOUBLE",
     "ONNX_TENSOR_ELEMENT_DATA_TYPE_UINT32",
     "ONNX_TENSOR_ELEMENT_DATA_TYPE_UINT64",
     "ONNX_TENSOR_ELEMENT_DATA_TYPE_COMPLEX64",
     "ONNX_TENSOR_ELEMENT_DATA_TYPE_COMPLEX128",
     "ONNX_TENSOR_ELEMENT_DATA_TYPE_BFLOAT16"}

\* The discriminant each variant of the enum is declared with.
discriminant(kind) ==
    CASE kind = "Float"  -> "ONNX_TENSOR_ELEMENT_DATA_TYPE_FLOAT"
      [] kind = "Uint8"  -> "ONNX_TENSOR_ELEMENT_DATA_TYPE_UINT8"
      [] kind = "Int8"   -> "ONNX_TENSOR_ELEMENT_DATA_TYPE_INT8"
      [] kind = "Uint16" -> "ONNX_TENSOR_ELEMENT_DATA_TYPE_UINT16"
      [] kind = "Int16"  -> "ONNX_TENSOR_ELEMENT_DATA_TYPE_INT16"
      [] kind = "Int32"  -> "ONNX_TENSOR_ELEMENT_DATA_TYPE_INT32"
      [] kind = "Int64"  -> "ONNX_TENSOR_ELEMENT_DATA_TYPE_INT64"
      [] kind = "String" -> "ONNX_TENSOR_ELEMENT_DATA_TYPE_STRING"
      [] kind = "Double" -> "ONNX_TENSOR_ELEMENT_DATA_TYPE_DOUBLE"
      [] kind = "Uint32" -> "ONNX_TENSOR_ELEMENT_DATA_TYPE_UINT32"
      [] kind = "Uint64" -> "ONNX_TENSOR_ELEMENT_DATA_TYPE_UINT64"

\* A conversion in which the Uint32 arm was pasted from the Uint64 arm.
into_pasted(kind) ==
    CASE kind = "Float"  -> "ONNX_TENSOR_ELEMENT_DATA_TYPE_FLOAT"
      [] kind = "Uint8"  -> "ONNX_TENSOR_ELEMENT_DATA_TYPE_UINT8"
      [] kind = "Int8"   -> "ONNX_TENSOR_ELEMENT_DATA_TYPE_INT8"
      [] kind = "Uint16" -> "ONNX_TENSOR_ELEMENT_DATA_TYPE_UINT16"
      [] kind = "Int16"  -> "ONNX_TENSOR_ELEMENT_DATA_TYPE_INT16"
      [] kind = "Int32"  -> "ONNX_TENSOR_ELEMENT_DATA_TYPE_INT32"
      [] kind = "Int64"  -> "ONNX_TENSOR_ELEMENT_DATA_TYPE_INT64"
      [] kind = "String" -> "ONNX_TENSOR_ELEMENT_DATA_TYPE_STRING"
      [] kind = "Double" -> "ONNX_TENSOR_ELEMENT_DATA_TYPE_DOUBLE"
      [] kind = "Uint32" -> "ONNX_TENSOR_ELEMENT_DATA_TYPE_UINT64"
      [] kind = "Uint64" -> "ONNX_TENSOR_ELEMENT_DATA_TYPE_UINT64"

\* impl Into<sys::ONNXTensorElementDataType> for TensorElementDataType.
into(kind) ==
    CASE kind = "Float"  -> "ONNX_TENSOR_ELEMENT_DATA_TYPE_FLOAT"
      [] kind = "Uint8"  -> "ONNX_TENSOR_ELEMENT_DATA_TYPE_UINT8"
      [] kind = "Int8"   -> "ONNX_TENSOR_ELEMENT_DATA_TYPE_INT8"
      [] kind = "Uint16" -> "ONNX_TENSOR_ELEMENT_DATA_TYPE_UINT16"
      [] kind = "Int16"  -> "ONNX_TENSOR_ELEMENT_DATA_TYPE_INT16"
      [] kind = "Int32"  -> "ONNX_TENSOR_ELEMENT_DATA_TYPE_INT32"
      [] kind = "Int64"  -> "ONNX_TENSOR_ELEMENT_DATA_TYPE_INT64"
      [] kind = "String" -> "ONNX_TENSOR_ELEMENT_DATA_TYPE_STRING"
      [] kind = "Double" -> "ONNX_TENSOR_ELEMENT_DATA_TYPE_DOUBLE"
      [] kind = "Uint32" -> "ONNX_TENSOR_ELEMENT_DATA_TYPE_UINT32"
      [] kind = "Uint64" -> "ONNX_TENSOR_ELEMENT_DATA_TYPE_UINT64"

\* from_native: the partial inverse; an unsupported native kind yields "None".
from_native(native) ==
    CASE native = "ONNX_TENSOR_ELEMENT_DATA_TYPE_FLOAT"  -> "Float"
      [] native = "ONNX_TENSOR_ELEMENT_DATA_TYPE_UINT8"  -> "Uint8"
      [] native = "ONNX_TENSOR_ELEMENT_DATA_TYPE_INT8"   -> "Int8"
      [] native = "ONNX_TENSOR_ELEMENT_DATA_TYPE_UINT16" -> "Uint16"
      [] native = "ONNX_TENSOR_ELEMENT_DATA_TYPE_INT16"  -> "Int16"
      [] native = "ONNX_TENSOR_ELEMENT_DATA_TYPE_INT32"  -> "Int32"
      [] native = "ONNX_TENSOR_ELEMENT_DATA_TYPE_INT64"  -> "Int64"
      [] native = "ONNX_TENSOR_ELEMENT_DATA_TYPE_STRING" -> "String"
      [] native = "ONNX_TENSOR_ELEMENT_DATA_TYPE_DOUBLE" -> "Double"
      [] native = "ONNX_TENSOR_ELEMENT_DATA_TYPE_UINT32" -> "Uint32"
      [] native = "ONNX_TENSOR_ELEMENT_DATA_TYPE_UINT64" -> "Uint64"
      [] OTHER -> "None"

(***************************************************************************)
(* 4.2 Type-to-kind mapping.                                               *)
(***************************************************************************)
\* The Rust types that implement TypeToTensorElementDataType.
RustTypes ==
    {"f32", "u8", "i8", "u16", "i16", "i32", "i64", "f64", "u32", "u64",
     "String", "&str"}

\* Utf8Data is implemented for String and &str only.
Utf8Data == {"String", "&str"}

\* TypeToTensorElementDataType::tensor_element_data_type.
tensor_element_data_type(t) ==
    CASE t \in Utf8Data -> "String"
      [] t = "f32" -> "Float"
      [] t = "u8"  -> "Uint8"
      [] t = "i8"  -> "Int8"
      [] t = "u16" -> "Uint16"
      [] t = "i16" -> "Int16"
      [] t = "i32" -> "Int32"
      [] t = "i64" -> "Int64"
      [] t = "f64" -> "Double"
      [] t = "u32" -> "Uint32"
      [] t = "u64" -> "Uint64"

(***************************************************************************)
(* Shapes and ndarray views.                                               *)
(***************************************************************************)
\* Shapes of rank 0, 1 and 2 with every dimension in 0..MaxDim.
Shapes ==
    {<<>>} \cup {<<a>> : a \in 0..MaxDim}
           \cup {<<a, b>> : a \in 0..MaxDim, b \in 0..MaxDim}

RECURSIVE Product(_)
\* Number of elements of a shape (ndarray's Dimension::size).
Product(shape) ==
    IF shape = <<>> THEN 1 ELSE Head(shape) * Product(Tail(shape))

RECURSIVE CStrides(_)
\* Row-major strides of a shape with no empty axis: (b*c, c, 1).
CStrides(shape) ==
    IF shape = <<>> THEN <<>>
    ELSE <<Product(Tail(shape))>> \o CStrides(Tail(shape))

\* ndarray's default_strides: row-major, all zero when an axis is empty.
default_strides(shape) ==
    IF \E k \in 1..Len(shape) : shape[k] = 0
    THEN [k \in 1..Len(shape) |-> 0]
    ELSE CStrides(shape)

\* The types impl_prim_type_from_ort_trait! is instantiated for.
PrimTypes == {"f32", "u8", "i8", "u16", "i16", "i32", "i64", "f64", "u32", "u64"}

\* Each instantiation also implements TensorDataToType for &T.
RefPairs ==
    {<<"&f32", "f32">>, <<"&u8", "u8">>, <<"&i8", "i8">>, <<"&u16", "u16">>,
     <<"&i16", "i16">>, <<"&i32", "i32">>, <<"&i64", "i64">>, <<"&f64", "f64">>,
     <<"&u32", "u32">>, <<"&u64", "u64">>}
RefTypes == {pr[1] : pr \in RefPairs}

\* The Self types of the numeric TensorDataToType impls.
ElemTypes == PrimTypes \cup RefTypes

\* The $type_ an impl was generated from: T for T and for &T.
Pointee(t) ==
    IF t \in RefTypes THEN (CHOOSE pr \in RefPairs : pr[1] = t)[2] ELSE t

\* TensorDataToType::tensor_element_data_type: the variant of $type_, for
\* both impls.
extract_data_type(t) == tensor_element_data_type(Pointee(t))

\* std::mem::size_of::<T>() in bytes; a reference is one 64-bit word.
size_of(t) ==
    CASE t \in {"u8", "i8"} -> 1
      [] t \in {"u16", "i16"} -> 2
      [] t \in {"f32", "i32", "u32"} -> 4
      [] t \in {"f64", "i64", "u64"} -> 8
      [] t \in RefTypes -> 8

\* ndarray::ArrayView::<T, D>::from_shape_ptr(shape, ptr): nothing is copied,
\* the view is the pointer cast to *const T, the shape and the default
\* strides, counted in elements of T.
from_shape_ptr(t, shape, p) ==
    [ptr |-> p, dim |-> shape, strides |-> default_strides(shape), elem |-> t]

\* The multi-indices of a shape (zero-based).
Indices(shape) ==
    {ix \in [1..Len(shape) -> 0..MaxDim + 1] :
        \A k \in 1..Len(shape) : ix[k] < shape[k]}

RECURSIVE Dot(_, _)
Dot(ix, strides) ==
    IF ix = <<>> THEN 0
    ELSE Head(ix) * Head(strides) + Dot(Tail(ix), Tail(strides))

\* The address a view reads for a multi-index: ptr.offset(sum ix[k]*strides[k]).
ViewAddr(v, ix) == v.ptr + Dot(ix, v.strides)

\* Element values of a numeric buffer.
Vals == {0, 1}

\* The buffer elements an element of the view lies over.  The buffer holds
\* elements of the pointee type; the view steps and reads in units of its own
\* element type, so a view of &T reads 8 bytes at byte offset 8 * e.
ViewSpan(v, ix) ==
    LET e == ViewAddr(v, ix) - v.ptr
        w == size_of(v.elem)
        s == size_of(Pointee(v.elem))
    IN  (v.ptr + (e * w) \div s) .. (v.ptr + (e * w + w - 1) \div s)

\* The values a read of the view at ix can give: the element type and the
\* buffer elements its bytes are made of.  Bytes past the end of the buffer
\* are not the tensor's: such a read is undefined and can give anything.
ViewReads(v, ix) ==
    LET span == ViewSpan(v, ix)
        lo == v.ptr + ((ViewAddr(v, ix) - v.ptr) * size_of(v.elem)) \div size_of(Pointee(v.elem))
        n == Cardinality(span)
    IN  {[type |-> v.elem, bits |-> b] :
            b \in {c \in [1..n -> Vals] :
                      \A k \in 1..n : lo + k - 1 \in 1..Len(mem) => c[k] = mem[lo + k - 1]}}

\* The runtime buffer's element at a one-based position, for a tensor whose
\* kind is that of the type extracted.
BufferElem(t, pos) == [type |-> Pointee(t), bits |-> <<mem[pos]>>]

(***************************************************************************)
(* Results of extract_data.                                                *)
(***************************************************************************)
\* ptr::null_mut()
NULL == 0
\* The address GetTensorMutableData reports for the runtime's buffer: the
\* address of mem[1].
DataPtr == 1

NoView == [ptr |-> NULL, dim |-> <<>>, strides |-> <<>>, elem |-> "none"]

\* TensorData::TensorPtr { ptr, array_view }
TensorPtr(rc, v) ==
    [variant |-> "TensorPtr", ptr |-> rc, array_view |-> v, strings |-> <<>>]

\* TensorData::Strings { strings }: an owned array of the given shape whose
\* elements, in row-major order, are the decoded strings.
Strings(shape, strs) ==
    [variant |-> "Strings", ptr |-> "none",
     array_view |-> [ptr |-> NULL, dim |-> shape, strides |-> default_strides(shape),
                     elem |-> "String"],
     strings |-> strs]

NoValue == [variant |-> "None", ptr |-> "none", array_view |-> NoView, strings |-> <<>>]

\* One call through the runtime's function table, with the bounds passed and
\* the capacities of the buffers passed.
Call(name, status, s_len, offsets_len, buf_cap, off_cap) ==
    [name |-> name, status |-> status, s_len |-> s_len, offsets_len |-> offsets_len,
     buf_cap |-> buf_cap, off_cap |-> off_cap]

\* Result<TensorData>, or a panic; tensor_ptr says what became of the
\* Rc<TensorPointerHolder> argument.
\* slices counts the byte slices taken from the content buffer.
Ok(value, calls, fate) ==
    [status |-> "ok", err |-> "", value |-> value, calls |-> calls,
     tensor_ptr |-> fate, slices |-> 0]
Err(e, calls, fate) ==
    [status |-> "err", err |-> e, value |-> NoValue, calls |-> calls,
     tensor_ptr |-> fate, slices |-> 0]
Panic(calls, fate) ==
    [status |-> "panic", err |-> "", value |-> NoValue, calls |-> calls,
     tensor_ptr |-> fate, slices |-> 0]

NoOutcome ==
    [status |-> "none", err |-> "", value |-> NoValue, calls |-> <<>>,
     tensor_ptr |-> "held", slices |-> 0]

(***************************************************************************)
(* 4.3 Numeric path.                                                       *)
(***************************************************************************)
\* fn extract_primitive_array::<T>(shape, tensor): one GetTensorMutableData
\* call writing a *mut T, assert_ne!(ptr, null), then a view of T over the
\* pointer.
extract_primitive_array(t, shape, st, p) ==
    LET calls == <<Call("GetTensorMutableData", st, 0, 0, 0, 0)>> IN
    IF st # "ok" THEN Err("GetTensorMutableData", calls, "held")
    ELSE IF p = NULL THEN Panic(calls, "held")
    ELSE Ok(TensorPtr("none", from_shape_ptr(t, shape, p)), calls, "held")

\* extract_data that forgets tensor_ptr on the failure path.
extract_data_forget(t, shape, n, st, p) ==
    LET r == extract_primitive_array(t, shape, st, p) IN
    IF r.status = "ok"
    THEN Ok(TensorPtr("rc", r.value.array_view), r.calls, "moved")
    ELSE [r EXCEPT !.tensor_ptr = "forgotten"]

\* impl_prim_type_from_ort_trait!::extract_data, for Self = t (T or &T; the
\* two bodies are the same): on success tensor_ptr moves
\* into the TensorPtr value; otherwise the closure holding it is dropped.
extract_data_prim(t, shape, n, st, p) ==
    LET r == extract_primitive_array(t, shape, st, p) IN
    IF r.status = "ok"
    THEN Ok(TensorPtr("rc", r.value.array_view), r.calls, "moved")
    ELSE [r EXCEPT !.tensor_ptr = "dropped"]

(***************************************************************************)
(* UTF-8 validation, as String::from_utf8 performs it.                     *)
(***************************************************************************)
\* core::str::utf8_char_width of a first byte.
utf8_char_width(b) ==
    IF b < 128 THEN 1
    ELSE IF b >= 194 /\ b <= 223 THEN 2
    ELSE IF b >= 224 /\ b <= 239 THEN 3
    ELSE IF b >= 240 /\ b <= 244 THEN 4
    ELSE 0

\* A continuation byte, 0x80..0xBF.
IsCont(b) == b >= 128 /\ b <= 191

\* The constraint on the second byte of a 3- or 4-byte sequence.
SecondOk(first, second) ==
    CASE first = 224 -> second >= 160 /\ second <= 191
      [] first >= 225 /\ first <= 236 -> IsCont(second)
      [] first = 237 -> second >= 128 /\ second <= 159
      [] first >= 238 /\ first <= 239 -> IsCont(second)
      [] first = 240 -> second >= 144 /\ second <= 191
      [] first >= 241 /\ first <= 243 -> IsCont(second)
      [] first = 244 -> second >= 128 /\ second <= 143
      [] OTHER -> FALSE

RECURSIVE Utf8From(_, _)
\* core::str::from_utf8 from position i on: TRUE iff the rest is well formed.
Utf8From(bytes, i) ==
    IF i > Len(bytes) THEN TRUE
    ELSE LET first == bytes[i]
             w == utf8_char_width(first) IN
         CASE w = 1 -> Utf8From(bytes, i + 1)
           [] w = 2 -> /\ i + 1 <= Len(bytes)
                       /\ IsCont(bytes[i + 1])
                       /\ Utf8From(bytes, i + 2)
           [] w = 3 -> /\ i + 2 <= Len(bytes)
                       /\ SecondOk(first, bytes[i + 1])
                       /\ IsCont(bytes[i + 2])
                       /\ Utf8From(bytes, i + 3)
           [] w = 4 -> /\ i + 3 <= Len(bytes)
                       /\ SecondOk(first, bytes[i + 1])
                       /\ IsCont(bytes[i + 2])
                       /\ IsCont(bytes[i + 3])
                       /\ Utf8From(bytes, i + 4)
           [] OTHER -> FALSE

\* String::from_utf8(bytes).is_ok(); the String keeps the same bytes.
from_utf8_ok(bytes) == Utf8From(bytes, 1)

(***************************************************************************)
(* 4.3 String path.                                                        *)
(***************************************************************************)
\* vec![0; n]
ZeroVec(n) == [i \in 1..n |-> 0]

\* What GetStringTensorContent leaves in the byte buffer: the tensor's
\* content, within the s_len bound passed.
FillBytes(buf, s_len, content) ==
    [i \in 1..Len(buf) |-> IF i <= s_len /\ i <= Len(content) THEN content[i] ELSE buf[i]]

\* What GetStringTensorContent leaves in the offset array: the tensor's
\* offsets, within the offsets_len bound passed.
FillOffsets(offsets, offsets_len, offs) ==
    [i \in 1..Len(offsets) |-> IF i <= offsets_len /\ i <= Len(offs) THEN offs[i] ELSE offsets[i]]

\* &string_contents[start..next_start] panics unless start <= next_start <= len.
SliceOk(buf, start, next_start) == start <= next_start /\ next_start <= Len(buf)

\* The slice of a buffer a range names, empty where the range leaves it.
Clamped(buf, start, next_start) ==
    LET e == IF next_start <= Len(buf) THEN next_start ELSE Len(buf) IN
    IF start < e THEN SubSeq(buf, start + 1, e) ELSE <<>>

RECURSIVE CollectClamp(_, _, _, _)
\* The collection with out-of-range windows clamped instead of panicking.
CollectClamp(buf, offsets, i, acc) ==
    IF i + 1 > Len(offsets) THEN [status |-> "ok", strings |-> acc, slices |-> i - 1]
    ELSE LET slice == Clamped(buf, offsets[i], offsets[i + 1]) IN
         IF ~from_utf8_ok(slice) THEN [status |-> "err", strings |-> <<>>, slices |-> i]
         ELSE CollectClamp(buf, offsets, i + 1, Append(acc, slice))

RECURSIVE CollectLax(_, _, _, _)
\* The collection with undecodable slices skipped instead of failing the whole.
CollectLax(buf, offsets, i, acc) ==
    IF i + 1 > Len(offsets) THEN [status |-> "ok", strings |-> acc, slices |-> i - 1]
    ELSE LET start == offsets[i]
             next_start == offsets[i + 1] IN
         IF ~SliceOk(buf, start, next_start)
         THEN [status |-> "panic", strings |-> <<>>, slices |-> i - 1]
         ELSE LET slice == SubSeq(buf, start + 1, next_start) IN
              IF ~from_utf8_ok(slice)
              THEN CollectLax(buf, offsets, i + 1, acc)
              ELSE CollectLax(buf, offsets, i + 1, Append(acc, slice))

RECURSIVE Collect(_, _, _, _)
\* offsets.windows(2).map(slice and decode).collect::<Result<Vec<_>, _>>():
\* windows are taken in order; the first undecodable slice ends the
\* collection with its error, a slice out of range panics.
Collect(buf, offsets, i, acc) ==
    IF i + 1 > Len(offsets) THEN [status |-> "ok", strings |-> acc, slices |-> i - 1]
    ELSE LET start == offsets[i]
             next_start == offsets[i + 1] IN
         IF ~SliceOk(buf, start, next_start)
         THEN [status |-> "panic", strings |-> <<>>, slices |-> i - 1]
         ELSE LET slice == SubSeq(buf, start + 1, next_start) IN
              IF ~from_utf8_ok(slice) THEN [status |-> "err", strings |-> <<>>, slices |-> i]
              ELSE Collect(buf, offsets, i + 1, Append(acc, slice))

\* ndarray::Array::from_shape_vec(shape, v).is_ok()
from_shape_vec_ok(shape, v) == Product(shape) = Len(v)

\* The offset table left as the runtime filled it.
final_offsets_unset(filled, n, total) == filled

\* offsets[tensor_element_len] = total_length
final_offsets(filled, n, total) == [filled EXCEPT ![n + 1] = total]

\* The decoding of a filled buffer and offset table: set the final offset,
\* collect the strings, shape them.
decode_strings(shape, n, total, string_contents, filled, calls) ==
    \* debug_assert_eq!(0, offsets[tensor_element_len]) is checked in debug
    \* builds only; the fill call is bounded by n, so the slot is still 0.
    LET offsets == final_offsets(filled, n, total)
        got == Collect(string_contents, offsets, 1, <<>>) IN
    CASE got.status = "panic" ->
           [Panic(calls, "dropped") EXCEPT !.slices = got.slices]
      [] got.status = "err" ->
           [Err("StringFromUtf8Error", calls, "dropped") EXCEPT !.slices = got.slices]
      [] OTHER ->
           IF from_shape_vec_ok(shape, got.strings)
           THEN [Ok(Strings(shape, got.strings), calls, "dropped") EXCEPT !.slices = got.slices]
           ELSE [Panic(calls, "dropped") EXCEPT !.slices = got.slices]

\* An offset array with one slot too many.
alloc_offsets_extra(n) == ZeroVec(n + 2)

\* vec![0_u64; tensor_element_len + 1]
alloc_offsets(n) == ZeroVec(n + 1)

\* vec![0_u8; total_length]
alloc_contents(total) == ZeroVec(total)

\* The fill call given the whole offset array as its bound.
fill_call_cap(fillSt, total, n) ==
    Call("GetStringTensorContent", fillSt, total, Len(alloc_offsets(n)),
         Len(alloc_contents(total)), Len(alloc_offsets(n)))

\* The fill call as issued: buffer, s_len = total_length, offset array,
\* offsets_len = tensor_element_len.
fill_call(fillSt, total, n) ==
    Call("GetStringTensorContent", fillSt, total, n,
         Len(alloc_contents(total)), Len(alloc_offsets(n)))

\* extract_data with both map_err calls naming the fill call.
extract_data_String_pasted(shape, n, lenSt, total, fillSt, content, offs) ==
    LET call1 == Call("GetStringTensorDataLength", lenSt, 0, 0, 0, 0) IN
    IF lenSt # "ok" THEN Err("GetStringTensorContent", <<call1>>, "dropped")
    ELSE LET call2 == fill_call(fillSt, total, n)
             calls == <<call1, call2>> IN
         IF fillSt # "ok" THEN Err("GetStringTensorContent", calls, "dropped")
         ELSE decode_strings(shape, n, total,
                             FillBytes(alloc_contents(total), call2.s_len, content),
                             FillOffsets(alloc_offsets(n), call2.offsets_len, offs),
                             calls)

\* <String as TensorDataToType>::extract_data.  lenSt and total are the
\* runtime's answer to GetStringTensorDataLength; fillSt, content and offs
\* its answer to GetStringTensorContent.
extract_data_String(shape, n, lenSt, total, fillSt, content, offs) ==
    LET call1 == Call("GetStringTensorDataLength", lenSt, 0, 0, 0, 0) IN
    IF lenSt # "ok" THEN Err("GetStringTensorDataLength", <<call1>>, "dropped")
    ELSE LET call2 == fill_call(fillSt, total, n)
             calls == <<call1, call2>> IN
         IF fillSt # "ok" THEN Err("GetStringTensorContent", calls, "dropped")
         ELSE decode_strings(shape, n, total,
                             FillBytes(alloc_contents(total), call2.s_len, content),
                             FillOffsets(alloc_offsets(n), call2.offsets_len, offs),
                             calls)

(***************************************************************************)
(* 4.4 Tensor handle: Rc<TensorPointerHolder>.                             *)
(***************************************************************************)
\* Dropping one Rc: the count falls, and the holder's destructor calls the
\* runtime's release entry when it reaches zero.
rc_drop ==
    /\ strong' = strong - 1
    /\ released' = IF strong = 1 THEN released + 1 ELSE released

\* Rc::clone by whoever holds a reference.
CloneRef ==
    /\ alive
    /\ strong >= 1
    /\ strong < MaxRefs
    /\ strong' = strong + 1
    /\ held' = held + 1
    /\ op' = "clone"
    /\ UNCHANGED <<views, released, mem, input, outcome, alive, conv, disc>>

\* The caller drops one of the references it holds.
DropRef ==
    /\ alive
    /\ held >= 1
    /\ held' = held - 1
    /\ rc_drop
    /\ op' = "drop"
    /\ UNCHANGED <<views, mem, input, outcome, alive, conv, disc>>

\* An ndarray::ArrayView<'t, T, D> on its own: 't is a free parameter of
\* extract_data, so nothing ties the view to the Rc it was returned with.
ArrayViewOnly(v) ==
    [variant |-> "ArrayView", ptr |-> "none", array_view |-> v, strings |-> <<>>]

\* The caller drops a TensorData::TensorPtr value (its ptr field, then its
\* view), or an array view it holds on its own.
DropView(i) ==
    /\ alive
    /\ i \in 1..Len(views)
    /\ views' = SubSeq(views, 1, i - 1) \o SubSeq(views, i + 1, Len(views))
    /\ IF views[i].ptr = "rc" THEN rc_drop ELSE UNCHANGED <<strong, released>>
    /\ op' = "drop_view"
    /\ UNCHANGED <<held, mem, input, outcome, alive, conv, disc>>

\* Number of array views held on their own.
Detached == Cardinality({i \in 1..Len(views) : views[i].ptr = "none" /\ views[i].variant = "ArrayView"})

\* The caller copies the array_view field out of a TensorPtr value: the
\* variant's fields are public and ArrayView is Copy.
CopyView(i) ==
    /\ alive
    /\ i \in 1..Len(views)
    /\ views[i].variant = "TensorPtr"
    /\ Detached < MaxCopies
    /\ views' = Append(views, ArrayViewOnly(views[i].array_view))
    /\ op' = "copy_view"
    /\ UNCHANGED <<strong, held, released, mem, input, outcome, alive, conv, disc>>

\* The caller destructures TensorPtr { ptr, array_view }: the Rc becomes a
\* reference of the caller's own, the view is left on its own.
TakePtr(i) ==
    /\ alive
    /\ i \in 1..Len(views)
    /\ views[i].variant = "TensorPtr"
    /\ views[i].ptr = "rc"
    /\ Detached < MaxCopies
    /\ views' = [views EXCEPT ![i] = ArrayViewOnly(views[i].array_view)]
    /\ held' = held + 1
    /\ op' = "take_ptr"
    /\ UNCHANGED <<strong, released, mem, input, outcome, alive, conv, disc>>

\* The runtime rewrites an element of the buffer it still owns.
RuntimeWrite(i, v) ==
    /\ alive
    /\ released = 0
    /\ i \in 1..Len(mem)
    /\ mem[i] # v
    /\ mem' = [mem EXCEPT ![i] = v]
    /\ op' = "write"
    /\ UNCHANGED <<strong, held, views, released, input, outcome, alive, conv, disc>>

(***************************************************************************)
(* extract_data as an operation on the handle.                             *)
(***************************************************************************)
\* The call returns r: a panic either unwinds (locals are dropped) or aborts
\* the process; tensor_ptr is in the returned value or was dropped.  A
\* returned TensorPtr value is kept by the caller; a tensor_ptr that was
\* neither moved nor dropped stays counted and is never released.
Return(r, unwind) ==
    IF r.status = "panic" /\ ~unwind
    THEN /\ alive' = FALSE
         /\ UNCHANGED <<strong, held, views, released>>
    ELSE /\ alive' = alive
         /\ held' = held - 1
         /\ CASE r.tensor_ptr = "moved" ->
                   /\ views' = Append(views, r.value)
                   /\ UNCHANGED <<strong, released>>
              [] r.tensor_ptr = "dropped" ->
                   /\ views' = IF r.value.variant = "TensorPtr"
                               THEN Append(views, r.value) ELSE views
                   /\ rc_drop
              [] OTHER -> UNCHANGED <<strong, released, views>>

NoInput ==
    [path |-> "none", type |-> "none", shape |-> <<>>, count |-> 0, st |-> "", p |-> NULL,
     lenSt |-> "", total |-> 0, fillSt |-> "", content |-> <<>>, offs |-> <<>>]

\* <t as TensorDataToType>::extract_data(shape, n, tensor_ptr) for t a
\* primitive T or a reference &T; the runtime
\* answers GetTensorMutableData with status st and pointer p.
ExtractPrim(t, shape, n, st, p, unwind) ==
    /\ alive
    /\ held >= 1
    /\ t \in ElemTypes
    /\ LET r == extract_data_prim(t, shape, n, st, p) IN
        /\ r.status # "panic" => unwind
        /\ input' = [NoInput EXCEPT !.path = "prim", !.type = t, !.shape = shape, !.count = n,
                                    !.st = st, !.p = p]
        /\ outcome' = r
        /\ Return(r, unwind)
    /\ op' = "extract_prim"
    /\ UNCHANGED <<mem, conv, disc>>

\* String::extract_data(shape, n, tensor_ptr); a holds the runtime's answers.
ExtractStr(shape, n, a, unwind) ==
    /\ alive
    /\ held >= 1
    /\ LET r == extract_data_String(shape, n, a.lenSt, a.total, a.fillSt, a.content, a.offs) IN
        /\ r.status # "panic" => unwind
        /\ input' = [NoInput EXCEPT !.path = "str", !.type = "String", !.shape = shape, !.count = n,
                                    !.lenSt = a.lenSt, !.total = a.total,
                                    !.fillSt = a.fillSt, !.content = a.content,
                                    !.offs = a.offs]
        /\ outcome' = r
        /\ Return(r, unwind)
    /\ op' = "extract_str"
    /\ UNCHANGED <<mem, conv, disc>>

(***************************************************************************)
(* The environment: what the runtime may answer.                           *)
(***************************************************************************)
Status == {"ok", "fail"}

\* Bytes of string content: 'a', and the two bytes of U+00E9, each of which
\* alone is not UTF-8.
Bytes == {97, 195, 169}

\* Answers to GetTensorMutableData; the pointer is meaningful on success only.
PrimAnswers ==
    {<<"fail", NULL>>, <<"ok", NULL>>, <<"ok", DataPtr>>}

\* Answers to the two string queries for a tensor of n strings and at most
\* maxLen bytes; what a failed or unissued call would have written is moot.
StrAnswers(n, maxLen) ==
    {[lenSt |-> "fail", total |-> 0, fillSt |-> "", content |-> <<>>, offs |-> <<>>]}
    \cup {[lenSt |-> "ok", total |-> L, fillSt |-> "fail", content |-> <<>>, offs |-> <<>>] :
            L \in 0..maxLen}
    \cup UNION {{[lenSt |-> "ok", total |-> L, fillSt |-> "ok", content |-> c, offs |-> o] :
                    c \in [1..L -> Bytes], o \in [1..n -> 0..L + 1]} : L \in 0..maxLen}

\* Shapes offered with a tensor of n strings: every enumerated shape of n
\* elements, and one shape of another size.
StrShapes(n) == {sh \in Shapes : Product(sh) = n} \cup {<<n + 1>>}

\* Numeric buffers of up to MaxElems elements.
Buffers == UNION {[1..k -> Vals] : k \in 0..MaxElems}

(***************************************************************************)
(* Conversions between Rust types, kinds and native kinds.                 *)
(***************************************************************************)
NoConv == [type |-> "none", kind |-> "none", native |-> "none", back |-> "none"]
NoDisc == [native |-> "none", kind |-> "none"]

\* A value of Rust type t is described to the runtime and read back.
Convert(t) ==
    /\ LET k == tensor_element_data_type(t) IN
        conv' = [type |-> t, kind |-> k, native |-> into(k),
                 back |-> from_native(into(k))]
    /\ UNCHANGED <<disc, strong, held, views, released, mem, input, outcome, op, alive>>

\* The runtime reports the element kind of an output tensor.
Report(native) ==
    /\ disc' = [native |-> native, kind |-> from_native(native)]
    /\ UNCHANGED <<conv, strong, held, views, released, mem, input, outcome, op, alive>>

(***************************************************************************)
(* Specifications.                                                         *)
(***************************************************************************)
InitHandle(m) ==
    /\ strong = 1
    /\ held = 1
    /\ views = <<>>
    /\ released = 0
    /\ mem = m
    /\ input = NoInput
    /\ outcome = NoOutcome
    /\ op = "new"
    /\ alive = TRUE
    /\ conv = NoConv
    /\ disc = NoDisc

\* Life of one handle: clones, drops and extractions of either path.
Init == InitHandle(ZeroVec(MaxDim))

ExtractPrimLife ==
    /\ alive /\ held >= 1
    /\ \E t \in {"f32", "&f32"}, a \in PrimAnswers, unwind \in BOOLEAN :
        ExtractPrim(t, <<Len(mem)>>, Len(mem), a[1], a[2], unwind)

ExtractStrLife ==
    /\ alive /\ held >= 1
    /\ \E a \in StrAnswers(1, 1), unwind \in BOOLEAN :
        ExtractStr(<<1>>, 1, a, unwind)

Next ==
    \/ CloneRef
    \/ DropRef
    \/ \E i \in 1..Len(views) : DropView(i)
    \/ \E i \in 1..Len(views) : CopyView(i)
    \/ \E i \in 1..Len(views) : TakePtr(i)
    \/ ExtractPrimLife
    \/ ExtractStrLife

Spec == Init /\ [][Next]_vars

\* Numeric extraction over every buffer and shape, with later writes.
InitNum == \E m \in Buffers : InitHandle(m)

ExtractPrimNum ==
    /\ alive /\ held >= 1
    /\ \E t \in ElemTypes, shape \in Shapes, a \in PrimAnswers, unwind \in BOOLEAN :
        ExtractPrim(t, shape, Len(mem), a[1], a[2], unwind)

NextNum ==
    \/ ExtractPrimNum
    \/ \E i \in 1..MaxElems, v \in Vals : RuntimeWrite(i, v)
    \/ DropView(1)

SpecNum == InitNum /\ [][NextNum]_vars

\* String extraction over every shape, count and runtime answer.
InitStr == InitHandle(<<>>)

ExtractStrAll ==
    /\ alive /\ held >= 1
    /\ \E n \in 0..MaxCount, unwind \in BOOLEAN :
         \E shape \in StrShapes(n), a \in StrAnswers(n, MaxLen) :
            ExtractStr(shape, n, a, unwind)

NextStr == ExtractStrAll

SpecStr == InitStr /\ [][NextStr]_vars

\* The element type registry.
InitKind == InitHandle(<<>>)

NextKind ==
    \/ \E t \in RustTypes : Convert(t)
    \/ \E native \in ONNXTensorElementDataType : Report(native)

SpecKind == InitKind /\ [][NextKind]_vars

(***************************************************************************)
(* Properties.                                                             *)
(***************************************************************************)
\* References to the handle that are alive: the caller's, and the one inside
\* each TensorPtr value.
LiveRefs == held + Cardinality({i \in 1..Len(views) : views[i].ptr = "rc"})

\* C1: the release entry has been called exactly once when no reference to
\* the handle is left, and not at all while the caller or a TensorPtr value
\* still holds one; the Rc's count is the number of references alive.
C1_ReleaseExactlyOnce ==
    /\ strong = LiveRefs
    /\ released = IF LiveRefs = 0 THEN 1 ELSE 0

\* The last reference was the one inside a TensorPtr value, and dropping that
\* value released the tensor.
C1_Witness ==
    /\ op = "drop_view"
    /\ outcome.status = "ok"
    /\ held = 0
    /\ views = <<>>
    /\ released = 1

\* C2: in every state in which an array view produced by extract_data can
\* still be read, whether inside its TensorPtr value or taken out of it, the
\* handle's count is at least 1 and the tensor has not been released.
C2_ViewNeverOutlivesHandle ==
    \A i \in 1..Len(views) :
        views[i].array_view.ptr = DataPtr => strong >= 1 /\ released = 0

NativeCalls ==
    {"GetTensorMutableData", "GetStringTensorDataLength", "GetStringTensorContent"}

\* C3: an extract_data call in which a native call fails returns the error
\* named after that call, the failed call is the last one issued, and the
\* reference passed in is dropped exactly once: the count falls by one and
\* release is called iff it was the last reference.
C3_FailurePath ==
    [][(/\ op' \in {"extract_prim", "extract_str"}
        /\ \E k \in 1..Len(outcome'.calls) : outcome'.calls[k].status # "ok")
       => LET calls == outcome'.calls IN
          /\ outcome'.status = "err"
          /\ outcome'.err \in NativeCalls
          /\ outcome'.err = calls[Len(calls)].name
          /\ \A k \in 1..Len(calls) - 1 : calls[k].status = "ok"
          /\ outcome'.value = NoValue
          /\ views' = views
          /\ held' = held - 1
          /\ strong' = strong - 1
          /\ released' = released + (IF strong = 1 THEN 1 ELSE 0)]_vars

\* The fill call failed in an extraction that was given the last reference.
C3_Witness ==
    /\ op = "extract_str"
    /\ outcome.err = "GetStringTensorContent"
    /\ Len(outcome.calls) = 2
    /\ strong = 0
    /\ released = 1

\* The i-th window boundary of the latest string extraction: the offsets the
\* runtime wrote, then the total length.
Boundary(i) == IF i <= input.count THEN input.offs[i] ELSE input.total

\* Both string queries of the latest extraction succeeded.
StringsFilled ==
    input.path = "str" /\ input.lenSt = "ok" /\ input.fillSt = "ok"

\* The runtime's offsets are non-decreasing and at most the total length.
OffsetsOrdered ==
    \A i \in 1..input.count : Boundary(i) <= Boundary(i + 1) /\ Boundary(i + 1) <= input.total

\* The bytes of the i-th string of the tensor.
SliceOf(i) == SubSeq(input.content, Boundary(i) + 1, Boundary(i + 1))

\* C4: with ordered offsets within the total length, decodable slices and a
\* shape of element_count elements, string extraction returns element_count
\* strings in order, string i being the bytes from offset i to offset i+1
\* (the total length after the last), shaped as asked.
C4_StringsInOrder ==
    (/\ StringsFilled
     /\ OffsetsOrdered
     /\ \A i \in 1..input.count : from_utf8_ok(SliceOf(i))
     /\ Product(input.shape) = input.count)
    => /\ outcome.status = "ok"
       /\ outcome.value.variant = "Strings"
       /\ outcome.value.array_view.dim = input.shape
       /\ Len(outcome.value.strings) = input.count
       /\ \A i \in 1..input.count : outcome.value.strings[i] = SliceOf(i)

\* Two strings, a two-byte character and an empty last string.
C4_Witness ==
    /\ StringsFilled
    /\ input.content = <<195, 169>>
    /\ input.offs = <<0, 2>>
    /\ outcome.status = "ok"
    /\ outcome.value.strings = << <<195, 169>>, <<>> >>

\* C5: when every window is in range and some slice is not UTF-8, string
\* extraction returns StringFromUtf8Error and no value, whatever the shape
\* and wherever the undecodable slice is.
C5_InvalidUtf8Fails ==
    (/\ StringsFilled
     /\ OffsetsOrdered
     /\ \E i \in 1..input.count : ~from_utf8_ok(SliceOf(i)))
    => /\ outcome.status = "err"
       /\ outcome.err = "StringFromUtf8Error"
       /\ outcome.value = NoValue

\* The first slice decodes, the second one does not.
C5_Witness ==
    /\ StringsFilled
    /\ input.content = <<97, 195>>
    /\ input.offs = <<0, 1>>
    /\ outcome.err = "StringFromUtf8Error"

\* C6: with element_count 0 the offset array has one slot, no window is
\* visited and no byte is sliced; with a shape of no elements the result is
\* the empty collection of that shape.
C6_EmptyTensor ==
    (StringsFilled /\ input.count = 0)
    => /\ outcome.calls[2].off_cap = 1
       /\ outcome.slices = 0
       /\ outcome.status # "err"
       /\ Product(input.shape) = 0
            => /\ outcome.status = "ok"
               /\ outcome.value.variant = "Strings"
               /\ outcome.value.strings = <<>>
               /\ outcome.value.array_view.dim = input.shape

\* No strings but some content bytes: nothing is sliced.
C6_Witness ==
    /\ StringsFilled
    /\ input.count = 0
    /\ input.total = 2
    /\ input.shape = <<0, 2>>
    /\ outcome.status = "ok"

\* The native value of the same name as each kind.
SameName ==
    {<<"Float", "ONNX_TENSOR_ELEMENT_DATA_TYPE_FLOAT">>,
     <<"Uint8", "ONNX_TENSOR_ELEMENT_DATA_TYPE_UINT8">>,
     <<"Int8", "ONNX_TENSOR_ELEMENT_DATA_TYPE_INT8">>,
     <<"Uint16", "ONNX_TENSOR_ELEMENT_DATA_TYPE_UINT16">>,
     <<"Int16", "ONNX_TENSOR_ELEMENT_DATA_TYPE_INT16">>,
     <<"Int32", "ONNX_TENSOR_ELEMENT_DATA_TYPE_INT32">>,
     <<"Int64", "ONNX_TENSOR_ELEMENT_DATA_TYPE_INT64">>,
     <<"String", "ONNX_TENSOR_ELEMENT_DATA_TYPE_STRING">>,
     <<"Double", "ONNX_TENSOR_ELEMENT_DATA_TYPE_DOUBLE">>,
     <<"Uint32", "ONNX_TENSOR_ELEMENT_DATA_TYPE_UINT32">>,
     <<"Uint64", "ONNX_TENSOR_ELEMENT_DATA_TYPE_UINT64">>}

\* C7: a kind converted to its native value and back is the same kind; the
\* native value is the one of the same name, equals the variant's declared
\* discriminant, and no other kind converts to it.
C7_RoundTrip ==
    conv.kind # "none"
    => /\ conv.kind \in TensorElementDataType
       /\ conv.back = conv.kind
       /\ <<conv.kind, conv.native>> \in SameName
       /\ conv.native = discriminant(conv.kind)
       /\ \A k \in TensorElementDataType : into(k) = conv.native => k = conv.kind

\* u32 went to UINT32 and came back.
C7_Witness ==
    /\ conv.type = "u32"
    /\ conv.native = "ONNX_TENSOR_ELEMENT_DATA_TYPE_UINT32"
    /\ conv.back = "Uint32"

RECURSIVE RowMajor(_, _, _)
\* The position of a multi-index in row-major order, by Horner's rule.
RowMajor(shape, ix, acc) ==
    IF shape = <<>> THEN acc
    ELSE RowMajor(Tail(shape), Tail(ix), acc * Head(shape) + Head(ix))

\* C8: a successful numeric extraction, through any of the numeric
\* extract_data impls, made one GetTensorMutableData call and returned a
\* TensorPtr whose view has the shape supplied; every live view whose shape
\* has as many elements as the buffer reads, at each index, exactly the
\* buffer's current element at that index's row-major position, also after
\* the runtime has rewritten the buffer.
C8_ViewAliasesBuffer ==
    /\ (input.path = "prim" /\ outcome.status = "ok")
       => /\ extract_data_type(input.type) \in TensorElementDataType \ {"String"}
          /\ outcome.value.variant = "TensorPtr"
          /\ outcome.value.array_view.dim = input.shape
          /\ outcome.value.array_view.ptr = DataPtr
          /\ Len(outcome.calls) = 1
    /\ \A i \in 1..Len(views) :
         LET v == views[i].array_view IN
         Product(v.dim) = Len(mem)
         => \A ix \in Indices(v.dim) :
               ViewReads(v, ix) = {BufferElem(v.elem, RowMajor(v.dim, ix, 0) + 1)}

\* The calls of a string extraction come in order, each at most once, the
\* fill call only after a successful length query.
CallsInOrder ==
    LET calls == outcome.calls IN
    /\ Len(calls) \in {1, 2}
    /\ calls[1].name = "GetStringTensorDataLength"
    /\ Len(calls) = 2
         => /\ calls[2].name = "GetStringTensorContent"
            /\ calls[1].status = "ok"
            /\ calls[2].buf_cap = input.total
            /\ calls[2].off_cap = input.count + 1
            /\ calls[2].s_len = calls[2].buf_cap

\* C9 as stated: the calls are in order and the fill call is bounded by the
\* capacities allocated, the offset bound being the element_count + 1 slots.
C9_Original ==
    input.path = "str"
    => /\ CallsInOrder
       /\ Len(outcome.calls) = 2 => outcome.calls[2].offsets_len = outcome.calls[2].off_cap

\* C9 amended: the calls are in order; the byte bound of the fill call is the
\* buffer's capacity, the total length, and its offset bound is
\* element_count, one less than the element_count + 1 slots allocated.
C9_FillBounds ==
    input.path = "str"
    => /\ CallsInOrder
       /\ Len(outcome.calls) = 2
            => /\ outcome.calls[2].offsets_len = input.count
               /\ outcome.calls[2].offsets_len = outcome.calls[2].off_cap - 1

\* A fill call for two strings and three bytes was issued.
C9_Witness ==
    /\ input.path = "str"
    /\ Len(outcome.calls) = 2
    /\ input.count = 2
    /\ input.total = 3
    /\ outcome.calls[2].offsets_len = 2

\* C10: whatever the runtime wrote, a string extraction ends in a value, a
\* typed error or a panic; a value has element_count strings, a shape of
\* element_count elements, and every window it was built from satisfies
\* 0 <= start <= end <= total length.
C10_NoOutOfRangeResult ==
    input.path = "str"
    => /\ outcome.status \in {"ok", "err", "panic"}
       /\ outcome.status = "err"
            => outcome.err \in {"GetStringTensorDataLength", "GetStringTensorContent",
                                "StringFromUtf8Error"}
       /\ outcome.status = "ok"
            => /\ StringsFilled
               /\ Len(outcome.value.strings) = input.count
               /\ Product(outcome.value.array_view.dim) = input.count
               /\ \A i \in 1..input.count :
                    /\ 0 <= Boundary(i)
                    /\ Boundary(i) <= Boundary(i + 1)
                    /\ Boundary(i + 1) <= input.total

\* Decreasing offsets ended in a panic.
C10_Witness ==
    /\ input.path = "str"
    /\ input.offs = <<2, 1>>
    /\ outcome.status = "panic"

====
